---------------------------- MODULE Spec2Model ----------------------------
(***************************************************************************)
(* Old World Analytics: the unit record flattener (backend/data_loader.py, *)
(* load_all_data) and the split valuation of main.py                       *)
(* (calculate_split_values, show_unit_card, the Value Discovery table).    *)
(*                                                                         *)
(* Python strings that the code sorts, joins, lower-cases or searches are  *)
(* sequences of one-character strings.  Strings the code only copies or    *)
(* compares for equality (faction, category, role, troop type, unit name)  *)
(* are TLA+ strings.  Numbers are integers: the model has no fractional    *)
(* prices or costs.                                                        *)
(***************************************************************************)
EXTENDS Integers, Sequences, FiniteSets, TLC

VARIABLES
    targetExists,  \* whether <root_dir>/<folder_path> is a directory
    targetFiles,   \* glob of <root_dir>/<folder_path>/*.json (empty when the folder is missing)
    cwdExists,     \* os.path.exists(folder_path), relative to the working directory
    cwdFiles,      \* glob of <folder_path>/*.json
    json_files,    \* the documents to load, in glob order
    idx,           \* number of documents the for loop has processed
    all_rows,      \* rows appended so far
    pc,            \* load_all_data: "find" -> "load" -> "done"; main.py: "tables" -> "value"
    outcome,       \* "none", "frame" (a DataFrame was returned) or "error" (an exception reached the caller)
    df,            \* the returned DataFrame: [columns, rows]
    EQUIPMENT_DB,  \* equipment price tables by role
    RULES_DB,      \* rule price tables by role
    notices,       \* non-fatal notices about missing price files
    row,           \* the record being valued
    g_val,         \* gear value of row
    r_val,         \* rules value of row
    naked_cost,    \* naked_cost of show_unit_card / Naked_Points of the Value Discovery table
    shown          \* which computation produced naked_cost: "none", "card" or "discovery"

vars == <<targetExists, targetFiles, cwdExists, cwdFiles, json_files, idx, all_rows, pc, outcome, df,
          EQUIPMENT_DB, RULES_DB, notices, row, g_val, r_val, naked_cost, shown>>

loaderVars == <<targetExists, targetFiles, cwdExists, cwdFiles, json_files, idx, all_rows, outcome, df>>
valueVars == <<EQUIPMENT_DB, RULES_DB, notices, row, g_val, r_val, naked_cost, shown>>

-----------------------------------------------------------------------------
(* Bounds of the model. *)

\* Largest number of documents in a data folder.
MaxFiles == 2

\* Largest number of keys in one role's price table.
MaxKeys == 2

-----------------------------------------------------------------------------
(* Python strings. *)

Range(s) == {s[i] : i \in DOMAIN s}

\* The characters in use, in code point order (the order Python compares str by).
Alphabet ==
    <<" ", "+", ",", "-",
      "0", "1", "2", "3", "4", "5", "6", "7", "8", "9",
      "A", "B", "C", "D", "E", "F", "G", "H", "I", "J", "K", "L", "M",
      "N", "O", "P", "Q", "R", "S", "T", "U", "V", "W", "X", "Y", "Z",
      "a", "b", "c", "d", "e", "f", "g", "h", "i", "j", "k", "l", "m",
      "n", "o", "p", "q", "r", "s", "t", "u", "v", "w", "x", "y", "z">>

Ord == [c \in Range(Alphabet) |-> CHOOSE i \in DOMAIN Alphabet : Alphabet[i] = c]

Digits == <<"0", "1", "2", "3", "4", "5", "6", "7", "8", "9">>

IsDigit(c) == c \in Range(Digits)

DigitValue(c) == (CHOOSE i \in DOMAIN Digits : Digits[i] = c) - 1

\* str.lower() on one character, then on a string.
UpperToLower ==
    [c \in {Alphabet[i] : i \in Ord["A"]..Ord["Z"]} |-> Alphabet[Ord[c] - Ord["A"] + Ord["a"]]]

LowerChar(c) == IF c \in DOMAIN UpperToLower THEN UpperToLower[c] ELSE c

RECURSIVE Lower(_)
Lower(s) == IF s = <<>> THEN <<>> ELSE <<LowerChar(Head(s))>> \o Lower(Tail(s))

\* Python's a < b on str: the first differing character decides, a proper prefix is smaller.
StrLess(a, b) ==
    \E i \in 1..(Len(b)) :
        /\ i <= Len(a) + 1
        /\ \A j \in 1..(i - 1) : a[j] = b[j]
        /\ \/ i = Len(a) + 1
           \/ (i <= Len(a) /\ Ord[a[i]] < Ord[b[i]])

\* Python's `sub in text` on str.
Contains(text, sub) ==
    \E i \in 0..(Len(text) - Len(sub)) : SubSeq(text, i + 1, i + Len(sub)) = sub

\* sorted(list(set(xs))) for a list of str.
RECURSIVE SortSet(_)
SortSet(S) ==
    IF S = {} THEN <<>>
    ELSE LET m == CHOOSE x \in S : \A y \in S \ {x} : StrLess(x, y)
         IN  <<m>> \o SortSet(S \ {m})

SortedSet(xs) == SortSet(Range(xs))

\* ", ".join(xs)
RECURSIVE Join(_)
Join(xs) ==
    IF xs = <<>> THEN <<>>
    ELSE IF Len(xs) = 1 THEN xs[1]
    ELSE xs[1] \o <<",", " ">> \o Join(Tail(xs))

\* str(n) for an int.
RECURSIVE NatToStr(_)
NatToStr(n) ==
    IF n < 10 THEN <<Digits[n + 1]>>
    ELSE NatToStr(n \div 10) \o <<Digits[(n % 10) + 1]>>

IntToStr(n) == IF n < 0 THEN <<"-">> \o NatToStr(0 - n) ELSE NatToStr(n)

\* The number a string of digits denotes (pd.to_numeric on a digit string).
RECURSIVE DigitsToNat(_)
DigitsToNat(s) ==
    IF s = <<>> THEN 0
    ELSE 10 * DigitsToNat(SubSeq(s, 1, Len(s) - 1)) + DigitValue(s[Len(s)])

-----------------------------------------------------------------------------
(* JSON values and Python objects. *)

\* A scalar a JSON document can hold where a number is expected.
JInt(n)  == [t |-> "int", n |-> n, s |-> <<>>]
JStr(s)  == [t |-> "str", n |-> 0, s |-> s]
None     == [t |-> "null", n |-> 0, s |-> <<>>]

\* {}
EmptyDict == [k \in {} |-> k]

\* dict.get(key, default)
Get(obj, key, default) == IF key \in DOMAIN obj THEN obj[key] ELSE default

\* A JSON value that is no object where an object is expected (a string, a number):
\* calling .get on it raises AttributeError.
NotAnObject == [scalar |-> TRUE]
IsDict(e) == "scalar" \notin DOMAIN e

\* A file json.load cannot parse.
Malformed == [malformed |-> TRUE]

\* bool(v)
Truthy(v) ==
    CASE v.t = "int" -> v.n # 0
      [] v.t = "str" -> v.s # <<>>
      [] OTHER -> FALSE

\* str(v), as astype(str) applies it to a cell.
PyStr(v) ==
    CASE v.t = "int" -> IntToStr(v.n)
      [] v.t = "str" -> v.s
      [] OTHER -> <<"N", "o", "n", "e">>


-----------------------------------------------------------------------------
(* backend/data_loader.py: load_all_data. *)

\* An empty frame built without columns.
expected_cols_none == <<>>

expected_cols ==
    <<"Faction", "Unit Name", "Role", "Org Slot", "Points", "Troop Type",
      "Innate Rules", "Special Rules", "Default Equipment", "Optional Upgrades",
      "M", "WS", "BS", "S", "T", "W", "I", "A", "Ld">>

\* The keys of the dict appended to all_rows, in the order it lists them.
row_keys ==
    <<"Faction", "Unit Name", "Role", "Org Slot", "Points", "Troop Type",
      "Innate Rules", "Special Rules", "Default Equipment", "Optional Upgrades",
      "M", "WS", "BS", "S", "T", "W", "I", "A", "Ld">>

numeric_cols == <<"Points", "M", "WS", "BS", "S", "T", "W", "I", "A", "Ld">>

\* stats.get(key, "-")
Dash == JStr(<<"-">>)
StatGet(stats, key) == Get(stats, key, Dash)

\* [u['name'] for u in unit.get("upgrades", []) if not u.get('is_default')]
RECURSIVE NamesWhere(_, _)
NamesWhere(upgrades, flag) ==
    IF upgrades = <<>> THEN <<>>
    ELSE LET u == Head(upgrades)
         IN  (IF Get(u, "is_default", FALSE) = flag THEN <<u["name"]>> ELSE <<>>)
                 \o NamesWhere(Tail(upgrades), flag)

\* The comprehension raises KeyError when an upgrade it keeps has no 'name'.
NamesRaise(upgrades, flag) ==
    \E i \in DOMAIN upgrades :
        /\ Get(upgrades[i], "is_default", FALSE) = flag
        /\ "name" \notin DOMAIN upgrades[i]

Upgrades(unit) == Get(unit, "upgrades", <<>>)

\* point_cost = model.get("cost", 0); if point_cost == 0: point_cost = unit.get("base_points", 0)
point_cost(unit, model) ==
    LET cost == Get(model, "cost", JInt(0))
    IN  IF cost.t = "int" /\ cost.n = 0
        THEN Get(unit, "base_points", JInt(0))
        ELSE cost

\* The rules of unit and model concatenated, neither deduplicated nor sorted.
combined_rules_concat(unit, model) ==
    Get(unit, "rules", <<>>) \o Get(model, "rules", <<>>)

combined_rules(unit, model) ==
    SortedSet(Get(unit, "rules", <<>>) \o Get(model, "rules", <<>>))

full_loadout(unit, model) ==
    SortedSet(Get(model, "default_weapons", <<>>) \o NamesWhere(Upgrades(unit), TRUE))

\* stats.get("LD") or stats.get("Ld", "-")
LdGet(stats) ==
    IF Truthy(Get(stats, "LD", None)) THEN stats["LD"] ELSE StatGet(stats, "Ld")

\* The dict appended to all_rows for one model of one unit.
MakeRow(faction, unit, model) ==
    LET stats == Get(model, "stats", EmptyDict)
    IN  ("Faction" :> faction)
     @@ ("Unit Name" :> Get(model, "name", "None"))
     @@ ("Role" :> Get(model, "role", "rank_and_file"))
     @@ ("Org Slot" :> Get(unit, "category", "Special"))
     @@ ("Points" :> point_cost(unit, model))
     @@ ("Troop Type" :> Get(stats, "Type", "Unknown"))
     @@ ("Innate Rules" :> Join(combined_rules(unit, model)))
     @@ ("Special Rules" :> combined_rules(unit, model))
     @@ ("Default Equipment" :> Join(full_loadout(unit, model)))
     @@ ("Optional Upgrades" :> Join(NamesWhere(Upgrades(unit), FALSE)))
     @@ ("M" :> StatGet(stats, "M"))
     @@ ("WS" :> StatGet(stats, "WS"))
     @@ ("BS" :> StatGet(stats, "BS"))
     @@ ("S" :> StatGet(stats, "S"))
     @@ ("T" :> StatGet(stats, "T"))
     @@ ("W" :> StatGet(stats, "W"))
     @@ ("I" :> StatGet(stats, "I"))
     @@ ("A" :> StatGet(stats, "A"))
     @@ ("Ld" :> LdGet(stats))

\* What raises before the unit's model loop starts: unit.get on a non-object, or
\* the optional_upgrades comprehension.
UnitRaises(unit) ==
    \/ ~IsDict(unit)
    \/ NamesRaise(Upgrades(unit), FALSE)

\* What raises in the body of the model loop: model.get on a non-object, or the
\* unit_defaults comprehension.
ModelRaises(unit, model) ==
    \/ ~IsDict(model)
    \/ NamesRaise(Upgrades(unit), TRUE)

\* The (unit, model) pairs whose row is appended before the loops end or raise.
RECURSIVE ModelEntries(_, _)
ModelEntries(unit, models) ==
    IF models = <<>> THEN [pairs |-> <<>>, raised |-> FALSE]
    ELSE IF ModelRaises(unit, Head(models)) THEN [pairs |-> <<>>, raised |-> TRUE]
    ELSE LET rest == ModelEntries(unit, Tail(models))
         IN  [pairs |-> <<(<<unit, Head(models)>>)>> \o rest.pairs, raised |-> rest.raised]

RECURSIVE UnitEntries(_)
UnitEntries(units) ==
    IF units = <<>> THEN [pairs |-> <<>>, raised |-> FALSE]
    ELSE IF UnitRaises(Head(units)) THEN [pairs |-> <<>>, raised |-> TRUE]
    ELSE LET here == ModelEntries(Head(units), Get(Head(units), "models", <<>>))
         IN  IF here.raised THEN here
             ELSE LET rest == UnitEntries(Tail(units))
                  IN  [pairs |-> here.pairs \o rest.pairs, raised |-> rest.raised]

\* The body of the try block for one file.
DocEntries(file) ==
    IF "malformed" \in DOMAIN file \/ ~IsDict(file)
    THEN [pairs |-> <<>>, raised |-> TRUE]
    ELSE UnitEntries(Get(file, "units", <<>>))

\* The rows one file adds to all_rows (the except clause only prints).
LoadDocument(file) ==
    LET e == DocEntries(file)
        faction == Get(file, "faction_name", "Unknown")
    IN  [i \in 1..Len(e.pairs) |-> MakeRow(faction, e.pairs[i][1], e.pairs[i][2])]

\* The conversion with the pattern anchored at the start of the text (str.match).
ToNumericAnchored(v) ==
    LET s == PyStr(v)
        ends == {k \in DOMAIN s : \A j \in 1..k : IsDigit(s[j])}
    IN  IF ends = {} THEN 0
        ELSE DigitsToNat(SubSeq(s, 1, CHOOSE k \in ends : \A j \in ends : j <= k))

\* astype(str).str.extract(r'(\d+)')[0], pd.to_numeric, fillna(0): the leftmost
\* maximal run of digits of str(v) as a number, 0 when str(v) has no digit.
\* (A column pandas infers as float prints 4 as "4.0" and None as "nan"; the
\* leftmost run of digits is the same.)
ToNumeric(v) ==
    LET s == PyStr(v)
        starts == {i \in DOMAIN s : IsDigit(s[i])}
    IN  IF starts = {} THEN 0
        ELSE LET first == CHOOSE i \in starts : \A j \in starts : i <= j
                 last == CHOOSE k \in first..Len(s) :
                            /\ \A j \in first..k : IsDigit(s[j])
                            /\ (k = Len(s) \/ ~IsDigit(s[k + 1]))
             IN  DigitsToNat(SubSeq(s, first, last))

NormalizeRow(r) ==
    [c \in DOMAIN r |-> IF c \in Range(numeric_cols) THEN ToNumeric(r[c]) ELSE r[c]]

\* pd.DataFrame(columns=expected_cols)
EmptyFrame == [columns |-> expected_cols, rows |-> <<>>]

\* pd.DataFrame(all_rows) followed by the numeric conversion; the columns are the
\* keys of the row dicts.
DataFrame(rows) ==
    [columns |-> SelectSeq(row_keys, LAMBDA c : c \in DOMAIN rows[1]),
     rows |-> [i \in 1..Len(rows) |-> NormalizeRow(rows[i])]]

\* File discovery with os.listdir, which raises when the folder is missing.
FindFilesListdir ==
    /\ pc = "find"
    /\ LET found == IF targetFiles # <<>> THEN targetFiles
                    ELSE IF cwdExists THEN cwdFiles ELSE <<>>
       IN  /\ json_files' = found
           /\ IF ~targetExists /\ ~cwdExists
              THEN /\ outcome' = "error"
                   /\ pc' = "done"
                   /\ UNCHANGED df
              ELSE IF found = <<>>
              THEN /\ df' = EmptyFrame
                   /\ outcome' = "frame"
                   /\ pc' = "done"
              ELSE /\ pc' = "load"
                   /\ UNCHANGED <<df, outcome>>
    /\ UNCHANGED <<targetExists, targetFiles, cwdExists, cwdFiles, idx, all_rows>>
    /\ UNCHANGED valueVars

\* Lines 20-36: locate the documents; no document at all returns the empty frame.
FindFiles ==
    /\ pc = "find"
    /\ LET found == IF targetFiles # <<>> THEN targetFiles
                    ELSE IF cwdExists THEN cwdFiles ELSE <<>>
       IN  /\ json_files' = found
           /\ IF found = <<>>
              THEN /\ df' = EmptyFrame
                   /\ outcome' = "frame"
                   /\ pc' = "done"
              ELSE /\ pc' = "load"
                   /\ UNCHANGED <<df, outcome>>
    /\ UNCHANGED <<targetExists, targetFiles, cwdExists, cwdFiles, idx, all_rows>>
    /\ UNCHANGED valueVars

\* Lines 38-82: one iteration of the loop over json_files.
LoadFile ==
    /\ pc = "load"
    /\ idx < Len(json_files)
    /\ all_rows' = all_rows \o LoadDocument(json_files[idx + 1])
    /\ idx' = idx + 1
    /\ UNCHANGED <<targetExists, targetFiles, cwdExists, cwdFiles, json_files, pc, outcome, df>>
    /\ UNCHANGED valueVars

\* Lines 84-93: the returned frame.
BuildFrame ==
    /\ pc = "load"
    /\ idx = Len(json_files)
    /\ df' = IF all_rows = <<>> THEN EmptyFrame ELSE DataFrame(all_rows)
    /\ outcome' = "frame"
    /\ pc' = "done"
    /\ UNCHANGED <<targetExists, targetFiles, cwdExists, cwdFiles, json_files, idx, all_rows>>
    /\ UNCHANGED valueVars

-----------------------------------------------------------------------------
(* The documents the loader is run on. *)

Fly      == <<"F", "l", "y">>
Fear     == <<"F", "e", "a", "r">>
Stubborn == <<"S", "t", "u", "b", "b", "o", "r", "n">>
Bow      == <<"B", "o", "w">>
Shield   == <<"S", "h", "i", "e", "l", "d">>
Spear    == <<"S", "p", "e", "a", "r">>

\* All sequences over S of length lo..hi.
SeqsOf(S, lo, hi) == UNION {[1..k -> S] : k \in lo..hi}

Trooper  == [name |-> "Spearman", cost |-> JInt(6), rules |-> <<Fly>>,
             default_weapons |-> <<Spear>>, stats |-> [M |-> JInt(4), WS |-> JStr(<<"3">>)]]
Sergeant == [name |-> "Sergeant", role |-> "champion", cost |-> JInt(11),
             stats |-> [M |-> JInt(4), LD |-> JInt(8)]]

GoodUnit    == [category |-> "Core", rules |-> <<Stubborn>>, models |-> <<Trooper, Sergeant>>]
HeroUnit    == [category |-> "Characters", base_points |-> JInt(50),
                upgrades |-> <<[name |-> Shield, is_default |-> TRUE], [name |-> Bow]>>,
                models |-> <<[name |-> "Captain"]>>]
NoModels    == [category |-> "Rare"]
\* A model entry that is no object, after a valid one.
BadModel    == [category |-> "Core", models |-> <<Trooper, NotAnObject>>]
\* An optional upgrade without a name: raises before the unit's models are read.
BadOptional == [models |-> <<Trooper>>, upgrades |-> <<[is_default |-> FALSE]>>]
\* A default upgrade without a name: raises at the unit's first model.
BadDefault  == [models |-> <<Trooper>>, upgrades |-> <<[is_default |-> TRUE]>>]

StructDocs ==
    { Malformed,
      NotAnObject,
      [faction_name |-> "Empire"],
      [faction_name |-> "Empire", units |-> <<NoModels>>],
      [faction_name |-> "Empire", units |-> <<GoodUnit>>],
      [units |-> <<HeroUnit>>],
      [faction_name |-> "Orcs", units |-> <<HeroUnit, NotAnObject>>],
      [faction_name |-> "Orcs", units |-> <<BadModel, HeroUnit>>],
      [faction_name |-> "Orcs", units |-> <<HeroUnit, BadOptional>>],
      [faction_name |-> "Orcs", units |-> <<BadDefault>>] }

\* One unit with one model; each family varies the fields one rule of the row reads.
FieldDoc(unitPart, modelPart) ==
    [faction_name |-> "Empire",
     units |-> <<unitPart @@ [models |-> <<modelPart @@ [name |-> "Spearman"]>>]>>]

CostParts == {EmptyDict, [cost |-> None], [cost |-> JInt(0)], [cost |-> JInt(12)]}
BasePointsParts == {EmptyDict, [base_points |-> None], [base_points |-> JInt(50)]}

StatValues == {None, JInt(4), JInt(-3), JInt(10), JStr(<<"4", "+">>), JStr(<<"D", "6">>),
               JStr(<<"-">>), JStr(<<"2", "D", "6", "+", "1">>)}
StatsParts ==
    {EmptyDict, [stats |-> EmptyDict]}
        \cup {[stats |-> [M |-> v, W |-> JInt(1)]] : v \in StatValues}
        \cup {[stats |-> [LD |-> JInt(7)]], [stats |-> [Ld |-> JInt(8)]],
              [stats |-> [LD |-> JInt(7), Ld |-> JInt(8)]],
              [stats |-> [LD |-> JInt(0), Ld |-> JInt(8)]],
              [stats |-> [LD |-> JInt(0)]]}

UnitRulesParts  == {EmptyDict, [rules |-> <<Stubborn>>], [rules |-> <<Stubborn, Fly>>]}
ModelRulesParts == {EmptyDict, [rules |-> <<Fly>>], [rules |-> <<Fly, Fear, Fly>>]}

UpgradesParts ==
    {EmptyDict,
     [upgrades |-> <<[name |-> Shield, is_default |-> TRUE]>>],
     [upgrades |-> <<[name |-> Spear, is_default |-> TRUE], [name |-> Bow],
                     [name |-> Shield, is_default |-> TRUE]>>]}
WeaponsParts == {EmptyDict, [default_weapons |-> <<Spear, Shield, Spear>>]}

FieldDocs ==
    {FieldDoc(u, m) : u \in BasePointsParts, m \in CostParts}
        \cup {FieldDoc(EmptyDict, m) : m \in StatsParts}
        \cup {FieldDoc(u, m) : u \in UnitRulesParts, m \in ModelRulesParts}
        \cup {FieldDoc(u, m) : u \in UpgradesParts, m \in WeaponsParts}

-----------------------------------------------------------------------------
(* The loader as a state machine. *)

ValueIdle ==
    /\ EQUIPMENT_DB = EmptyDict
    /\ RULES_DB = EmptyDict
    /\ notices = {}
    /\ row = EmptyDict
    /\ g_val = 0
    /\ r_val = 0
    /\ naked_cost = 0
    /\ shown = "none"

LoaderStart ==
    /\ json_files = <<>>
    /\ idx = 0
    /\ all_rows = <<>>
    /\ pc = "find"
    /\ outcome = "none"
    /\ df = EmptyFrame

\* The data folder next to the script, or the same name under the working directory.
FolderInit(docs) ==
    \/ /\ targetExists = TRUE
       /\ targetFiles \in SeqsOf(docs, 1, MaxFiles)
       /\ cwdExists = FALSE
       /\ cwdFiles = <<>>
    \/ /\ targetExists \in BOOLEAN
       /\ targetFiles = <<>>
       /\ cwdExists = FALSE
       /\ cwdFiles = <<>>
    \/ /\ targetExists \in BOOLEAN
       /\ targetFiles = <<>>
       /\ cwdExists = TRUE
       /\ cwdFiles \in SeqsOf(docs, 0, MaxFiles)

Init == FolderInit(StructDocs) /\ LoaderStart /\ ValueIdle

Next == FindFiles \/ LoadFile \/ BuildFrame

Spec == Init /\ [][Next]_vars

\* The same loader on documents that vary the fields of one unit and one model.
InitFields ==
    /\ targetExists = TRUE
    /\ targetFiles \in SeqsOf(FieldDocs, 1, MaxFiles)
    /\ cwdExists = FALSE
    /\ cwdFiles = <<>>
    /\ LoaderStart
    /\ ValueIdle

SpecFields == InitFields /\ [][Next]_vars

-----------------------------------------------------------------------------
(* main.py: the price tables and the split valuation. *)

\* The substitute for a missing price file.
NoPrices == [rank_and_file |-> EmptyDict, character |-> EmptyDict]

Max(a, b) == IF a >= b THEN a ELSE b

\* any(x in loadout_str for x in [...])
ContainsAny(text, subs) == \E i \in DOMAIN subs : Contains(text, subs[i])

BowLike   == << <<"c", "r", "o", "s", "s", "b", "o", "w">>,
                <<"l", "o", "n", "g", "b", "o", "w">>,
                <<"s", "h", "o", "r", "t", "b", "o", "w">>,
                <<"e", "l", "b", "o", "w">> >>
SpearLike == << <<"t", "h", "r", "o", "w", "i", "n", "g", " ", "s", "p", "e", "a", "r">>,
                <<"c", "a", "v", "a", "l", "r", "y", " ", "s", "p", "e", "a", "r">> >>

\* The equipment loop without the "bow" safeguard.
EquipmentCountsNoBowGuard(item_key, loadout_str) ==
    LET item_lower == Lower(item_key)
    IN  /\ Contains(loadout_str, item_lower)
        /\ ~(item_lower = <<"s", "p", "e", "a", "r">> /\ ContainsAny(loadout_str, SpearLike))

\* Whether the body of the equipment loop reaches g_val += price for item_key.
EquipmentCounts(item_key, loadout_str) ==
    LET item_lower == Lower(item_key)
    IN  /\ Contains(loadout_str, item_lower)
        /\ ~(item_lower = <<"b", "o", "w">> /\ ContainsAny(loadout_str, BowLike))
        /\ ~(item_lower = <<"s", "p", "e", "a", "r">> /\ ContainsAny(loadout_str, SpearLike))

\* Whether the body of the rules loop reaches r_val += price for rule_key.
RuleCounts(rule_key, rules_str) == Contains(rules_str, Lower(rule_key))

\* for item_key, price in equip_prices.items(): ... g_val += price
RECURSIVE EquipmentScan(_, _, _)
EquipmentScan(keys, prices, loadout_str) ==
    IF keys = {} THEN 0
    ELSE LET k == CHOOSE x \in keys : TRUE
         IN  (IF EquipmentCounts(k, loadout_str) THEN prices[k] ELSE 0)
                 + EquipmentScan(keys \ {k}, prices, loadout_str)

\* for rule_key, price in rule_prices.items(): ... r_val += price
RECURSIVE RulesScan(_, _, _)
RulesScan(keys, prices, rules_str) ==
    IF keys = {} THEN 0
    ELSE LET k == CHOOSE x \in keys : TRUE
         IN  (IF RuleCounts(k, rules_str) THEN prices[k] ELSE 0)
                 + RulesScan(keys \ {k}, prices, rules_str)

\* role = "character" if row["Org Slot"] == "Characters" else "rank_and_file"
RoleOf(r) == IF r["Org Slot"] = "Characters" THEN "character" ELSE "rank_and_file"

\* DB.get(role, {}): no fallback to the rank_and_file table.
PricesForNoFallback(db, role) == Get(db, role, EmptyDict)

\* DB.get(role, DB.get("rank_and_file", {}))
PricesFor(db, role) == Get(db, role, Get(db, "rank_and_file", EmptyDict))

GearValue(prices, r) ==
    IF r["Default Equipment"] = <<>> THEN 0
    ELSE EquipmentScan(DOMAIN prices, prices, Lower(r["Default Equipment"]))

RulesValue(prices, r) ==
    IF r["Innate Rules"] = <<>> THEN 0
    ELSE RulesScan(DOMAIN prices, prices, Lower(r["Innate Rules"]))

\* The pair (g_val, r_val) the function returns.
calculate_split_values(r) ==
    <<GearValue(PricesFor(EQUIPMENT_DB, RoleOf(r)), r),
      RulesValue(PricesFor(RULES_DB, RoleOf(r)), r)>>

\* The naked cost floored at 0 instead of 1.
NakedCostFloorZero(points, total_extras) == Max(points - total_extras, 0)

\* naked_cost = max(row['Points'] - total_extras, 1.0)
NakedCost(points, total_extras) == Max(points - total_extras, 1)

-----------------------------------------------------------------------------
(* The price files and the records the valuation is run on. *)

Crossbow      == <<"C", "r", "o", "s", "s", "b", "o", "w">>
Longbow       == <<"L", "o", "n", "g", "b", "o", "w">>
Shortbow      == <<"S", "h", "o", "r", "t", "b", "o", "w">>
ElbowSpikes   == <<"E", "l", "b", "o", "w", " ", "s", "p", "i", "k", "e", "s">>
ThrowingSpear == <<"T", "h", "r", "o", "w", "i", "n", "g", " ", "S", "p", "e", "a", "r">>
CavalrySpear  == <<"C", "a", "v", "a", "l", "r", "y", " ", "S", "p", "e", "a", "r">>
Sword         == <<"S", "w", "o", "r", "d">>
GreatSword    == <<"G", "r", "e", "a", "t", " ", "S", "w", "o", "r", "d">>

Loadouts ==
    { <<>>, <<Bow>>, <<Crossbow>>, <<Bow, Crossbow>>, <<Longbow>>, <<Shortbow, Sword>>,
      <<ElbowSpikes>>, <<Spear>>, <<ThrowingSpear>>, <<CavalrySpear, Shield>>,
      <<Spear, Shield>>, <<Sword>>, <<GreatSword, Sword>>, <<Crossbow, Spear>> }

RuleLists == { <<>>, <<Fly>>, <<Fear, Fly>> }

ValueUnits ==
    {[category |-> c, base_points |-> p] : c \in {"Characters", "Core"},
                                           p \in {JInt(3), JInt(20)}}

\* The records are rows of the loader's frame.
ValueRows ==
    {NormalizeRow(MakeRow("Empire", u,
                          [name |-> "Spearman", default_weapons |-> w, rules |-> ru]))
        : u \in ValueUnits, w \in Loadouts, ru \in RuleLists}

\* The item names a price file may list, with the price each has.
EquipmentPrice ==
    (<<"b", "o", "w">> :> 5)
 @@ (<<"c", "r", "o", "s", "s", "b", "o", "w">> :> 10)
 @@ (<<"s", "p", "e", "a", "r">> :> 2)
 @@ (<<"s", "w", "o", "r", "d">> :> 3)
 @@ (<<"S", "w", "o", "r", "d">> :> 4)
 @@ (<<"B", "o", "w">> :> 6)

\* Every table over at most MaxKeys of these names.
EquipmentTables ==
    {[k \in K |-> EquipmentPrice[k]] :
        K \in {K \in SUBSET DOMAIN EquipmentPrice : Cardinality(K) <= MaxKeys}}

CharacterTable == (<<"s", "w", "o", "r", "d">> :> 30) @@ (<<"b", "o", "w">> :> 50)

\* open() of a price file that does not exist.
FileNotFound == [file_not_found |-> TRUE]

\* What equipment_values.json may hold.
EquipmentFiles ==
    {[rank_and_file |-> t] : t \in EquipmentTables}
        \cup {[rank_and_file |-> t, character |-> CharacterTable] : t \in EquipmentTables}
        \cup {[character |-> CharacterTable], EmptyDict}

\* What rules.json may hold.
RulesFiles ==
    { [rank_and_file |-> (<<"f", "l", "y">> :> 3) @@ (<<"F", "e", "a", "r">> :> 6)],
      [character |-> (<<"f", "e", "a", "r">> :> 9)] }

\* Lines 21-35: both price files are read; a missing one is replaced and noticed.
LoadTables ==
    /\ pc = "tables"
    /\ \E e \in EquipmentFiles \cup {FileNotFound}, ru \in RulesFiles \cup {FileNotFound} :
          /\ EQUIPMENT_DB' = IF e = FileNotFound THEN NoPrices ELSE e
          /\ RULES_DB' = IF ru = FileNotFound THEN NoPrices ELSE ru
          /\ notices' = (IF e = FileNotFound THEN {"equipment_values.json"} ELSE {})
                            \cup (IF ru = FileNotFound THEN {"rules.json"} ELSE {})
    /\ pc' = "value"
    /\ UNCHANGED <<row, g_val, r_val, naked_cost, shown>>
    /\ UNCHANGED loaderVars

\* Lines 109-113: the unit card of a record.
ShowUnitCard ==
    /\ pc = "value"
    /\ shown # "card"
    /\ LET v == calculate_split_values(row)
           total_extras == v[1] + v[2]
       IN  /\ g_val' = v[1]
           /\ r_val' = v[2]
           /\ naked_cost' = NakedCost(row["Points"], total_extras)
    /\ shown' = "card"
    /\ UNCHANGED <<EQUIPMENT_DB, RULES_DB, notices, row, pc>>
    /\ UNCHANGED loaderVars

\* Lines 326-332: Extra_Value and Naked_Points of a record of the Value Discovery table.
ValueDiscovery ==
    /\ pc = "value"
    /\ shown # "discovery"
    /\ LET v == calculate_split_values(row)
           Extra_Value == v[1] + v[2]
           Naked_Points == row["Points"] - Extra_Value
       IN  /\ g_val' = v[1]
           /\ r_val' = v[2]
           /\ naked_cost' = Max(Naked_Points, 1)
    /\ shown' = "discovery"
    /\ UNCHANGED <<EQUIPMENT_DB, RULES_DB, notices, row, pc>>
    /\ UNCHANGED loaderVars

InitValue ==
    /\ targetExists = TRUE
    /\ targetFiles = <<>>
    /\ cwdExists = FALSE
    /\ cwdFiles = <<>>
    /\ json_files = <<>>
    /\ idx = 0
    /\ all_rows = <<>>
    /\ outcome = "frame"
    /\ df = EmptyFrame
    /\ pc = "tables"
    /\ EQUIPMENT_DB = EmptyDict
    /\ RULES_DB = EmptyDict
    /\ notices = {}
    /\ row \in ValueRows
    /\ g_val = 0
    /\ r_val = 0
    /\ naked_cost = 0
    /\ shown = "none"

NextValue == LoadTables \/ ShowUnitCard \/ ValueDiscovery

SpecValue == InitValue /\ [][NextValue]_vars

-----------------------------------------------------------------------------
(* Helpers of the properties. *)

\* The (unit, model) pairs behind all_rows, in order: all_rows[k] was made from
\* LoadedEntries[k].
RECURSIVE EntriesOf(_)
EntriesOf(files) ==
    IF files = <<>> THEN <<>>
    ELSE DocEntries(Head(files)).pairs \o EntriesOf(Tail(files))

LoadedEntries == EntriesOf(SubSeq(json_files, 1, idx))

\* The sum of f over a finite set of keys.
RECURSIVE SumOver(_, _)
SumOver(keys, f) ==
    IF keys = {} THEN 0
    ELSE LET k == CHOOSE x \in keys : TRUE
         IN  f[k] + SumOver(keys \ {k}, f)

\* Strictly ascending in Python's str order: sorted and free of duplicates.
StrictlyAscending(xs) == \A i \in 1..(Len(xs) - 1) : StrLess(xs[i], xs[i + 1])

\* text.split(", ")
RECURSIVE SplitCommaSpace(_)
SplitCommaSpace(text) ==
    LET cuts == {i \in 1..(Len(text) - 1) : text[i] = "," /\ text[i + 1] = " "}
    IN  IF cuts = {} THEN <<text>>
        ELSE LET c == CHOOSE i \in cuts : \A j \in cuts : i <= j
             IN  <<SubSeq(text, 1, c - 1)>> \o SplitCommaSpace(SubSeq(text, c + 2, Len(text)))

-----------------------------------------------------------------------------
(* C1: the bow and spear guards of the equipment scan. *)

C1_Blob == Lower(row["Default Equipment"])

C1_Excluded(key, blob) ==
    \/ /\ Lower(key) = <<"b", "o", "w">>
       /\ \/ Contains(blob, <<"c", "r", "o", "s", "s", "b", "o", "w">>)
          \/ Contains(blob, <<"l", "o", "n", "g", "b", "o", "w">>)
          \/ Contains(blob, <<"s", "h", "o", "r", "t", "b", "o", "w">>)
          \/ Contains(blob, <<"e", "l", "b", "o", "w">>)
    \/ /\ Lower(key) = <<"s", "p", "e", "a", "r">>
       /\ \/ Contains(blob, <<"t", "h", "r", "o", "w", "i", "n", "g", " ", "s", "p", "e", "a", "r">>)
          \/ Contains(blob, <<"c", "a", "v", "a", "l", "r", "y", " ", "s", "p", "e", "a", "r">>)

C1_ScenarioTable ==
    (<<"b", "o", "w">> :> 5) @@ (<<"c", "r", "o", "s", "s", "b", "o", "w">> :> 10)

\* C1: once a record is valued, gearValue is the sum of the prices of the keys of
\* the resolved equipment table that occur (lower-cased) in the lower-cased loadout
\* blob, except that "bow" adds nothing when the blob holds crossbow, longbow,
\* shortbow or elbow, and "spear" adds nothing when it holds throwing spear or
\* cavalry spear; with the table {bow: 5, crossbow: 10} and a non-character record
\* whose equipment holds "Crossbow", gearValue is 10.
C1_GuardedScan ==
    shown # "none" =>
        LET prices == PricesFor(EQUIPMENT_DB, RoleOf(row))
            counted == {k \in DOMAIN prices :
                            Contains(C1_Blob, Lower(k)) /\ ~C1_Excluded(k, C1_Blob)}
        IN  /\ g_val = SumOver(counted, prices)
            /\ ( /\ row["Org Slot"] # "Characters"
                 /\ "rank_and_file" \in DOMAIN EQUIPMENT_DB
                 /\ EQUIPMENT_DB["rank_and_file"] = C1_ScenarioTable
                 /\ Contains(row["Default Equipment"], Crossbow) ) => g_val = 10

\* A crossbow record valued with the table {bow: 5, crossbow: 10}: the bow key
\* matched as a substring and was suppressed.
C1_Witness ==
    /\ shown = "card"
    /\ row["Org Slot"] # "Characters"
    /\ "rank_and_file" \in DOMAIN EQUIPMENT_DB
    /\ EQUIPMENT_DB["rank_and_file"] = C1_ScenarioTable
    /\ row["Default Equipment"] = Crossbow
    /\ g_val = 10

-----------------------------------------------------------------------------
(* C2: the floor of the naked cost. *)

\* C2: wherever the naked cost is computed (unit card, Value Discovery table) it is
\* max(points - gearValue - rulesValue, 1), so at least 1; points 20 with gear 5
\* and rules 3 give 12, points 3 with gear 5 give 1.
C2_NakedFloor ==
    shown # "none" =>
        /\ naked_cost = Max(row["Points"] - g_val - r_val, 1)
        /\ naked_cost >= 1
        /\ (row["Points"] = 20 /\ g_val = 5 /\ r_val = 3) => naked_cost = 12
        /\ (row["Points"] = 3 /\ g_val = 5) => naked_cost = 1

\* The Value Discovery table floors a record whose extras exceed its points.
C2_Witness ==
    /\ shown = "discovery"
    /\ row["Points"] = 3
    /\ g_val = 5
    /\ naked_cost = 1

-----------------------------------------------------------------------------
(* C3: a document that raises. *)

\* The rows of the documents whose processing raises nowhere.
RECURSIVE C3_ValidRows(_)
C3_ValidRows(files) ==
    IF files = <<>> THEN <<>>
    ELSE (IF DocEntries(Head(files)).raised THEN <<>> ELSE LoadDocument(Head(files)))
             \o C3_ValidRows(Tail(files))

\* C3: the returned frame holds exactly the records of the documents whose
\* processing raised no error: a document that raises at any point (unparseable, or
\* a bad unit, upgrade or model entry after valid ones) contributes no record, and
\* every record of every other document is present.
C3_RaisingDocumentSkippedEntirely ==
    pc = "done" =>
        LET valid == C3_ValidRows(json_files)
        IN  df.rows = [i \in 1..Len(valid) |-> NormalizeRow(valid[i])]

-----------------------------------------------------------------------------
(* C7: the empty result. *)

C7_Schema ==
    {"Faction", "Unit Name", "Role", "Org Slot", "Points", "Troop Type",
     "Innate Rules", "Special Rules", "Default Equipment", "Optional Upgrades",
     "M", "WS", "BS", "S", "T", "W", "I", "A", "Ld"}

\* C7: when no document is found, or the documents yield no row, load_all_data
\* returns (no error) a frame without rows whose columns are the fixed schema, the
\* rules field being the two columns "Innate Rules" (text) and "Special Rules"
\* (list); a frame with rows has the same set of fields.
C7_EmptyResultIsShaped ==
    pc = "done" =>
        /\ (json_files = <<>> \/ all_rows = <<>>) =>
                /\ outcome = "frame"
                /\ df.rows = <<>>
                /\ Range(df.columns) = C7_Schema
        /\ all_rows # <<>> =>
                /\ df.rows # <<>>
                /\ Range(df.columns) = C7_Schema
                /\ \A k \in DOMAIN df.rows : DOMAIN df.rows[k] = C7_Schema

\* Documents were found and all of them were skipped or held no model.
C7_Witness ==
    /\ pc = "done"
    /\ Len(json_files) = MaxFiles
    /\ \E i \in DOMAIN json_files : DocEntries(json_files[i]).raised
    /\ all_rows = <<>>
    /\ df.rows = <<>>
    /\ Range(df.columns) = C7_Schema

-----------------------------------------------------------------------------
(* C8: a data folder that does not exist. *)

\* C8 as stated: when the data folder exists neither next to the script nor under
\* the working directory, the loader reports an error to the caller.
C8_MissingFolderIsAnError ==
    (pc = "done" /\ ~targetExists /\ ~cwdExists) => outcome = "error"

\* C8, amended: a data folder that does not exist is not reported: the loader
\* returns the empty frame with the expected columns, the result it also returns
\* for a folder that exists and holds no document.
C8_MissingFolderIsEmptyFrame ==
    (pc = "done" /\ ~targetExists /\ ~cwdExists) =>
        /\ outcome = "frame"
        /\ df = [columns |-> expected_cols, rows |-> <<>>]
        /\ json_files = <<>>

\* The loader has returned for a folder that exists nowhere.
C8_Witness ==
    /\ pc = "done"
    /\ ~targetExists
    /\ ~cwdExists
    /\ outcome = "frame"

-----------------------------------------------------------------------------
(* C4: rules and default equipment of a record. *)

C4_UnitDefaultNames(unit) ==
    {Upgrades(unit)[i]["name"] :
        i \in {j \in DOMAIN Upgrades(unit) : Get(Upgrades(unit)[j], "is_default", FALSE)}}

\* The items of a record's "Default Equipment" text ("" holds none).
C4_Items(text) == IF text = <<>> THEN <<>> ELSE SplitCommaSpace(text)

\* C4: every record's rules list is strictly ascending (sorted, no duplicate) and
\* holds exactly the owning unit's rules and the model's rules; its default
\* equipment, split at ", ", is strictly ascending and holds exactly the model's
\* default_weapons and the names of the unit's default upgrades; unit rules
\* [Stubborn] with model rules [Fly] give [Fly, Stubborn].
C4_RulesAndEquipmentSortedUnion ==
    \A k \in DOMAIN all_rows :
        LET unit == LoadedEntries[k][1]
            model == LoadedEntries[k][2]
            rules == all_rows[k]["Special Rules"]
            items == C4_Items(all_rows[k]["Default Equipment"])
        IN  /\ StrictlyAscending(rules)
            /\ Range(rules) = Range(Get(unit, "rules", <<>>)) \cup Range(Get(model, "rules", <<>>))
            /\ all_rows[k]["Innate Rules"] = Join(rules)
            /\ StrictlyAscending(items)
            /\ Range(items) = Range(Get(model, "default_weapons", <<>>))
                                  \cup C4_UnitDefaultNames(unit)
            /\ ( /\ Get(unit, "rules", <<>>) = <<Stubborn>>
                 /\ Get(model, "rules", <<>>) = <<Fly>> ) => rules = <<Fly, Stubborn>>
            /\ pc = "done" =>
                    /\ df.rows[k]["Special Rules"] = rules
                    /\ df.rows[k]["Default Equipment"] = all_rows[k]["Default Equipment"]

\* A returned record whose rules merge a duplicate out of unit and model rules and
\* whose equipment merges duplicated weapons with default upgrades.
C4_Witness ==
    /\ pc = "done"
    /\ \E k \in DOMAIN all_rows :
          /\ Get(LoadedEntries[k][1], "rules", <<>>) = <<Stubborn, Fly>>
          /\ Get(LoadedEntries[k][2], "rules", <<>>) = <<Fly, Fear, Fly>>
          /\ df.rows[k]["Special Rules"] = <<Fear, Fly, Stubborn>>
    /\ \E k \in DOMAIN all_rows :
          /\ Get(LoadedEntries[k][2], "default_weapons", <<>>) = <<Spear, Shield, Spear>>
          /\ Len(Upgrades(LoadedEntries[k][1])) > 1
          /\ df.rows[k]["Default Equipment"] = Join(<<Shield, Spear>>)

-----------------------------------------------------------------------------
(* C9: the points of a record. *)

\* The cost the claim resolves: the model's cost when present and nonzero (null is
\* not a cost), else the unit's base_points when present, else 0.
C9_Resolved(unit, model) ==
    LET cost == Get(model, "cost", None)
        base == Get(unit, "base_points", None)
    IN  IF cost.t = "int" /\ cost.n # 0 THEN cost.n
        ELSE IF base.t = "int" THEN base.n
        ELSE 0

\* C9: every returned record's points is the model's cost if present and nonzero,
\* else the unit's base_points if present, else 0 (also when cost is null or 0 and
\* base_points is set), and is never negative.
C9_PointsResolution ==
    pc = "done" =>
        \A k \in DOMAIN df.rows :
            /\ df.rows[k]["Points"] = C9_Resolved(LoadedEntries[k][1], LoadedEntries[k][2])
            /\ df.rows[k]["Points"] >= 0

-----------------------------------------------------------------------------
(* C10: the stat fields of a record. *)

C10_Stats == {"M", "WS", "BS", "S", "T", "W", "I", "A", "Ld"}

\* The number written by the digits a text starts with, 0 when it starts with none.
RECURSIVE C10_LeadingDigits(_, _)
C10_LeadingDigits(text, acc) ==
    IF text = <<>> \/ ~IsDigit(Head(text)) THEN acc
    ELSE C10_LeadingDigits(Tail(text), 10 * acc + DigitValue(Head(text)))

\* The number written by the leftmost run of digits of a text, 0 when it has no digit.
RECURSIVE C10_LeftmostDigits(_)
C10_LeftmostDigits(text) ==
    IF text = <<>> THEN 0
    ELSE IF IsDigit(Head(text)) THEN C10_LeadingDigits(text, 0)
    ELSE C10_LeftmostDigits(Tail(text))

\* C10 as stated: every stat of a returned record is a non-negative integer; for
\* a source value that is a string, null or missing it is the number written by
\* the digits the value starts with ("4+" gives 4), and 0 when it starts with none.
C10_LeadingDigitSequence ==
    pc = "done" =>
        \A k \in DOMAIN df.rows : \A c \in C10_Stats :
            /\ df.rows[k][c] \in Nat
            /\ all_rows[k][c].t # "int" =>
                    df.rows[k][c] = C10_LeadingDigits(PyStr(all_rows[k][c]), 0)

\* C10, amended: every stat of a returned record is a non-negative integer: the
\* number written by the leftmost run of digits in the text of its source value,
\* wherever that run starts ("4+" gives 4, "D6" gives 6, -3 gives 3), and 0 when
\* the value is missing or its text has no digit; the conversion fails for no value.
C10_LeftmostDigitSequence ==
    pc = "done" =>
        /\ outcome = "frame"
        /\ Len(df.rows) = Len(all_rows)
        /\ \A k \in DOMAIN df.rows : \A c \in C10_Stats :
              /\ df.rows[k][c] \in Nat
              /\ df.rows[k][c] = C10_LeftmostDigits(PyStr(all_rows[k][c]))
              /\ (\A i \in DOMAIN PyStr(all_rows[k][c]) : ~IsDigit(PyStr(all_rows[k][c])[i]))
                    => df.rows[k][c] = 0
              /\ all_rows[k][c] = JStr(<<"4", "+">>) => df.rows[k][c] = 4

\* A returned record whose M was "D6" and became 6, next to one whose M was "4+".
C10_Witness ==
    /\ pc = "done"
    /\ \E k \in DOMAIN df.rows : all_rows[k]["M"] = JStr(<<"D", "6">>) /\ df.rows[k]["M"] = 6
    /\ \E k \in DOMAIN df.rows : all_rows[k]["M"] = JStr(<<"4", "+">>) /\ df.rows[k]["M"] = 4
    /\ \E k \in DOMAIN df.rows : all_rows[k]["S"] = Dash /\ df.rows[k]["S"] = 0

-----------------------------------------------------------------------------
(* C5: one price per item name. *)

\* The names of a table, compared without case.
C5_Names(prices) == {Lower(k) : k \in DOMAIN prices}

\* The price the table gives an item name.
C5_PriceOfName(prices, name) == prices[CHOOSE k \in DOMAIN prices : Lower(k) = name]

\* C5: gearValue (rulesValue) is the sum, over the distinct case-insensitive item
\* names of the resolved table that occur in the blob and are not excluded by a
\* guard, of that item's price: each item counts once per record.
C5_OncePerItemName ==
    shown # "none" =>
        LET eq == PricesFor(EQUIPMENT_DB, RoleOf(row))
            ru == PricesFor(RULES_DB, RoleOf(row))
            gearNames == {n \in C5_Names(eq) : Contains(C1_Blob, n) /\ ~C1_Excluded(n, C1_Blob)}
            ruleNames == {n \in C5_Names(ru) : Contains(Lower(row["Innate Rules"]), n)}
        IN  /\ g_val = SumOver(gearNames, [n \in gearNames |-> C5_PriceOfName(eq, n)])
            /\ r_val = SumOver(ruleNames, [n \in ruleNames |-> C5_PriceOfName(ru, n)])

-----------------------------------------------------------------------------
(* C6: the price table of a record's role. *)

\* The table the claim resolves in a price document.
C6_Table(db) ==
    IF row["Org Slot"] = "Characters" /\ "character" \in DOMAIN db THEN db["character"]
    ELSE IF "rank_and_file" \in DOMAIN db THEN db["rank_and_file"]
    ELSE EmptyDict

\* C6: a record is priced with the "character" table when its Org Slot is
\* "Characters" and with "rank_and_file" otherwise; a document without the selected
\* role is read at "rank_and_file"; with neither, or with the substitute for a
\* missing file, the value from that document is 0.  Equipment and rules resolve
\* independently.
C6_RoleTableFallback ==
    shown # "none" =>
        /\ g_val = GearValue(C6_Table(EQUIPMENT_DB), row)
        /\ r_val = RulesValue(C6_Table(RULES_DB), row)
        /\ "equipment_values.json" \in notices => g_val = 0
        /\ "rules.json" \in notices => r_val = 0
        /\ ("rank_and_file" \notin DOMAIN EQUIPMENT_DB
                /\ ~(row["Org Slot"] = "Characters" /\ "character" \in DOMAIN EQUIPMENT_DB))
              => g_val = 0
        /\ ("rank_and_file" \notin DOMAIN RULES_DB
                /\ ~(row["Org Slot"] = "Characters" /\ "character" \in DOMAIN RULES_DB))
              => r_val = 0

\* A character priced from rank_and_file equipment (no character table there) and
\* from character rules, both with a match.
C6_Witness ==
    /\ shown = "card"
    /\ row["Org Slot"] = "Characters"
    /\ "character" \notin DOMAIN EQUIPMENT_DB
    /\ "rank_and_file" \in DOMAIN EQUIPMENT_DB
    /\ g_val > 0
    /\ "character" \in DOMAIN RULES_DB
    /\ r_val = 9

-----------------------------------------------------------------------------
(* C11: the key the Ld of a record is read from. *)

\* The value the claim reads: LD's whenever that key is present, else Ld's, else
\* the placeholder of a missing stat.
C11_Source(stats) ==
    IF "LD" \in DOMAIN stats THEN stats["LD"]
    ELSE IF "Ld" \in DOMAIN stats THEN stats["Ld"]
    ELSE Dash

\* C11: every returned record's Ld is the normalized value of the stats block's
\* LD key whenever that key is present, whatever its value (0 included), of its Ld
\* key only when LD is absent, and 0 when both are absent.
C11_UppercaseKeyFirst ==
    pc = "done" =>
        \A k \in DOMAIN df.rows :
            LET stats == Get(LoadedEntries[k][2], "stats", EmptyDict)
            IN  /\ df.rows[k]["Ld"] = C10_LeftmostDigits(PyStr(C11_Source(stats)))
                /\ ("LD" \notin DOMAIN stats /\ "Ld" \notin DOMAIN stats)
                      => df.rows[k]["Ld"] = 0

=============================================================================
